---- MODULE Spec2Model ----
(***************************************************************************)
(* Model of the payments ledger of bukatea/coding-test.                    *)
(*                                                                         *)
(*   - Account (src/src/account.rs): one client's balances and deposit     *)
(*     records; process applies one transaction.                           *)
(*   - AccountsHandler (src/src/accounts_handler.rs): the router, with the *)
(*     global set of seen txids and the map client id -> Account.          *)
(*                                                                         *)
(* Decimal values are modelled as integers (a count of the smallest unit); *)
(* Decimal::is_sign_negative is modelled as x < 0.                         *)
(*                                                                         *)
(* Two specifications share the variables: SpecAccount drives a single     *)
(* Account through Account::process, SpecHandler drives an AccountsHandler *)
(* through submit_transaction and snapshot_accounts.                       *)
(***************************************************************************)
EXTENDS Integers, FiniteSets, Sequences, TLC

\* ------------------------------------------------------------------ bounds

\* txids are 1..MaxTxid (Txid is a u32 in the program)
MaxTxid == 2

\* client ids are 1..MaxClient (ClientId is a u16 in the program)
MaxClient == 2

\* amounts of deposits and withdrawals range over -1..MaxAmount
MaxAmount == 1

\* deposits are only generated while available + held + amount <= MaxBalance
MaxBalance == 2

Txids == 1..MaxTxid

ClientIds == 1..MaxClient

Amounts == (-1)..MaxAmount

\* a withdrawal may ask for more than any single deposit brings
WithdrawalAmounts == (-1)..(MaxAmount + 1)

\* ------------------------------------------------------------ transactions

Kinds == {"Deposit", "Withdrawal", "Dispute", "Resolve", "Chargeback"}

\* Deposit and Withdrawal carry an amount; the other kinds carry none
\* (modelled as amount 0, which no operation reads).
Tx(kind, amount, client, txid) ==
    [tx_type |-> kind, amount |-> amount, client_id |-> client, txid |-> txid]

Transactions(clients) ==
    {Tx("Deposit", a, c, t) : a \in Amounts, c \in clients, t \in Txids}
    \cup {Tx("Withdrawal", a, c, t) : a \in WithdrawalAmounts,
                                      c \in clients, t \in Txids}
    \cup {Tx(k, 0, c, t) : k \in {"Dispute", "Resolve", "Chargeback"},
                           c \in clients, t \in Txids}

\* the value of `last` before any transaction was handled
NoTx == [tx_type |-> "None", amount |-> 0, client_id |-> 0, txid |-> 0]

\* ------------------------------------------------------------------ Account

\* HashMap::insert: add or overwrite the entry for key k
MapInsert(m, k, v) == [x \in (DOMAIN m) \cup {k} |-> IF x = k THEN v ELSE m[x]]

DepositRecord(amount, disputed) == [amount |-> amount, disputed |-> disputed]

\* Account::new
AccountNew(id) ==
    [id |-> id, deposits |-> << >>, available |-> 0, held |-> 0, locked |-> FALSE]

is_sign_negative(x) == x < 0

\* deposit without the check of the sign
deposit_unchecked_sign(self, txid, amount) ==
    [self EXCEPT !.deposits = MapInsert(self.deposits, txid,
                                        DepositRecord(amount, FALSE)),
                 !.available = self.available + amount]

deposit(self, txid, amount) ==
    IF is_sign_negative(amount)
    THEN self
    ELSE [self EXCEPT !.deposits = MapInsert(self.deposits, txid,
                                             DepositRecord(amount, FALSE)),
                      !.available = self.available + amount]

\* withdraw without the check of the lock
withdraw_ignores_lock(self, amount) ==
    IF is_sign_negative(amount)
    THEN self
    ELSE LET new_balance == self.available - amount
         IN  IF is_sign_negative(new_balance)
             THEN self
             ELSE [self EXCEPT !.available = new_balance]

\* withdraw that pays out what is available when the funds do not suffice
withdraw_partial(self, amount) ==
    IF self.locked
    THEN self
    ELSE IF is_sign_negative(amount)
    THEN self
    ELSE LET new_balance == self.available - amount
         IN  IF is_sign_negative(new_balance)
             THEN [self EXCEPT !.available = 0]
             ELSE [self EXCEPT !.available = new_balance]

withdraw(self, amount) ==
    IF self.locked
    THEN self
    ELSE IF is_sign_negative(amount)
    THEN self
    ELSE LET new_balance == self.available - amount
         IN  IF is_sign_negative(new_balance)
             THEN self
             ELSE [self EXCEPT !.available = new_balance]

\* dispute without the check of the available balance
dispute_unchecked_balance(self, txid) ==
    IF txid \in DOMAIN self.deposits
    THEN LET rec == self.deposits[txid]
         IN  IF ~rec.disputed
             THEN [self EXCEPT !.deposits[txid].disputed = TRUE,
                               !.available = self.available - rec.amount,
                               !.held = self.held + rec.amount]
             ELSE self
    ELSE self

\* dispute without the check of the disputed flag
dispute_unchecked_flag(self, txid) ==
    IF txid \in DOMAIN self.deposits
    THEN LET rec == self.deposits[txid]
         IN  IF self.available >= rec.amount
             THEN [self EXCEPT !.deposits[txid].disputed = TRUE,
                               !.available = self.available - rec.amount,
                               !.held = self.held + rec.amount]
             ELSE self
    ELSE self

dispute(self, txid) ==
    IF txid \in DOMAIN self.deposits
    THEN LET rec == self.deposits[txid]
         IN  IF ~rec.disputed /\ self.available >= rec.amount
             THEN [self EXCEPT !.deposits[txid].disputed = TRUE,
                               !.available = self.available - rec.amount,
                               !.held = self.held + rec.amount]
             ELSE self
    ELSE self

\* resolve that releases the funds without taking them out of held
resolve_keeps_held(self, txid) ==
    IF txid \in DOMAIN self.deposits
    THEN LET rec == self.deposits[txid]
         IN  IF rec.disputed
             THEN [self EXCEPT !.deposits[txid].disputed = FALSE,
                               !.available = self.available + rec.amount]
             ELSE self
    ELSE self

\* resolve without the check of the disputed flag
resolve_unchecked_flag(self, txid) ==
    IF txid \in DOMAIN self.deposits
    THEN LET rec == self.deposits[txid]
         IN  [self EXCEPT !.deposits[txid].disputed = FALSE,
                          !.available = self.available + rec.amount,
                          !.held = self.held - rec.amount]
    ELSE self

\* resolve that releases the funds and leaves the record disputed
resolve_keeps_flag(self, txid) ==
    IF txid \in DOMAIN self.deposits
    THEN LET rec == self.deposits[txid]
         IN  IF rec.disputed
             THEN [self EXCEPT !.available = self.available + rec.amount,
                               !.held = self.held - rec.amount]
             ELSE self
    ELSE self

resolve(self, txid) ==
    IF txid \in DOMAIN self.deposits
    THEN LET rec == self.deposits[txid]
         IN  IF rec.disputed
             THEN [self EXCEPT !.deposits[txid].disputed = FALSE,
                               !.available = self.available + rec.amount,
                               !.held = self.held - rec.amount]
             ELSE self
    ELSE self

\* chargeback that returns the funds to available, as resolve does
chargeback_refunds(self, txid) ==
    IF txid \in DOMAIN self.deposits
    THEN LET rec == self.deposits[txid]
         IN  IF rec.disputed
             THEN [self EXCEPT !.deposits[txid].disputed = FALSE,
                               !.available = self.available + rec.amount,
                               !.held = self.held - rec.amount,
                               !.locked = TRUE]
             ELSE self
    ELSE self

\* chargeback without the check of the disputed flag
chargeback_unchecked_flag(self, txid) ==
    IF txid \in DOMAIN self.deposits
    THEN LET rec == self.deposits[txid]
         IN  [self EXCEPT !.deposits[txid].disputed = FALSE,
                          !.held = self.held - rec.amount,
                          !.locked = TRUE]
    ELSE self

chargeback(self, txid) ==
    IF txid \in DOMAIN self.deposits
    THEN LET rec == self.deposits[txid]
         IN  IF rec.disputed
             THEN [self EXCEPT !.deposits[txid].disputed = FALSE,
                               !.held = self.held - rec.amount,
                               !.locked = TRUE]
             ELSE self
    ELSE self

process(self, tx) ==
    IF tx.client_id # self.id
    THEN self
    ELSE CASE tx.tx_type = "Deposit"    -> deposit(self, tx.txid, tx.amount)
           [] tx.tx_type = "Withdrawal" -> withdraw(self, tx.amount)
           [] tx.tx_type = "Dispute"    -> dispute(self, tx.txid)
           [] tx.tx_type = "Resolve"    -> resolve(self, tx.txid)
           [] tx.tx_type = "Chargeback" -> chargeback(self, tx.txid)

snapshot(self) ==
    [id |-> self.id, available |-> self.available, held |-> self.held,
     total |-> self.available + self.held, locked |-> self.locked]

\* ---------------------------------------------------------- AccountsHandler

\* AccountsHandler::new
HandlerNew == [accounts |-> << >>, txids |-> {}]

\* submit_transaction that does not record the txid it admits
submit_transaction_forgets(self, tx) ==
    IF tx.txid \in self.txids
    THEN [handler |-> self, ret |-> "Err", applied |-> FALSE]
    ELSE LET acct == IF tx.client_id \in DOMAIN self.accounts
                     THEN self.accounts[tx.client_id]
                     ELSE AccountNew(tx.client_id)
         IN  [handler |-> [accounts |-> MapInsert(self.accounts, tx.client_id,
                                                  process(acct, tx)),
                           txids |-> self.txids],
              ret |-> "Ok", applied |-> TRUE]

\* submit_transaction that looks up (and creates) the account before it
\* checks the txid
submit_transaction_creates_first(self, tx) ==
    LET acct     == IF tx.client_id \in DOMAIN self.accounts
                    THEN self.accounts[tx.client_id]
                    ELSE AccountNew(tx.client_id)
        accounts == MapInsert(self.accounts, tx.client_id, acct)
    IN  IF tx.txid \in self.txids
        THEN [handler |-> [accounts |-> accounts, txids |-> self.txids],
              ret |-> "Err", applied |-> FALSE]
        ELSE [handler |-> [accounts |-> MapInsert(accounts, tx.client_id,
                                                  process(acct, tx)),
                           txids |-> self.txids \cup {tx.txid}],
              ret |-> "Ok", applied |-> TRUE]

\* submit_transaction that hands every event to the account that was
\* created first, whatever its client
submit_transaction_first_account(self, tx) ==
    IF tx.txid \in self.txids
    THEN [handler |-> self, ret |-> "Err", applied |-> FALSE]
    ELSE LET key  == IF DOMAIN self.accounts = {}
                     THEN tx.client_id
                     ELSE CHOOSE c \in DOMAIN self.accounts : TRUE
             acct == IF key \in DOMAIN self.accounts
                     THEN self.accounts[key]
                     ELSE AccountNew(key)
         IN  [handler |-> [accounts |-> MapInsert(self.accounts, key,
                                                  process(acct, tx)),
                           txids |-> self.txids \cup {tx.txid}],
              ret |-> "Ok", applied |-> TRUE]

\* submit_transaction that records the txid only of an event that changed
\* the account
submit_transaction_consumes_on_effect(self, tx) ==
    IF tx.txid \in self.txids
    THEN [handler |-> self, ret |-> "Err", applied |-> FALSE]
    ELSE LET acct == IF tx.client_id \in DOMAIN self.accounts
                     THEN self.accounts[tx.client_id]
                     ELSE AccountNew(tx.client_id)
             next == process(acct, tx)
         IN  [handler |-> [accounts |-> MapInsert(self.accounts,
                                                  tx.client_id, next),
                           txids |-> IF next = acct
                                     THEN self.txids
                                     ELSE self.txids \cup {tx.txid}],
              ret |-> "Ok", applied |-> TRUE]

\* submit_transaction that reports an event the account ignored
submit_transaction_surfaces(self, tx) ==
    IF tx.txid \in self.txids
    THEN [handler |-> self, ret |-> "Err", applied |-> FALSE]
    ELSE LET acct == IF tx.client_id \in DOMAIN self.accounts
                     THEN self.accounts[tx.client_id]
                     ELSE AccountNew(tx.client_id)
             next == process(acct, tx)
         IN  [handler |-> [accounts |-> MapInsert(self.accounts,
                                                  tx.client_id, next),
                           txids |-> self.txids \cup {tx.txid}],
              ret |-> IF next = acct THEN "Err" ELSE "Ok",
              applied |-> TRUE]

\* AccountsHandler::submit_transaction.  The result holds the handler after
\* the call, the value returned ("Ok" or "Err", the duplicate txid error) and
\* whether Account::process was called.
submit_transaction(self, tx) ==
    IF tx.txid \in self.txids
    THEN [handler |-> self, ret |-> "Err", applied |-> FALSE]
    ELSE LET txids == self.txids \cup {tx.txid}
             acct  == IF tx.client_id \in DOMAIN self.accounts
                      THEN self.accounts[tx.client_id]
                      ELSE AccountNew(tx.client_id)
         IN  [handler |-> [accounts |-> MapInsert(self.accounts, tx.client_id,
                                                  process(acct, tx)),
                           txids |-> txids],
              ret |-> "Ok", applied |-> TRUE]

\* AccountsHandler::snapshot_accounts (the Vec has no order: a set)
snapshot_accounts(self) ==
    {snapshot(self.accounts[c]) : c \in DOMAIN self.accounts}

\* ------------------------------------------- lib.rs: Account, AccountHandler

\* Account::new of lib.rs (a deposit record is the pair (amount, disputed))
lib_new(id) ==
    [id |-> id, deposits |-> << >>, available |-> 0, held |-> 0,
     locked |-> FALSE]

\* Account::deposit of lib.rs
lib_deposit(self, txid, amount) ==
    IF is_sign_negative(amount)
    THEN self
    ELSE [self EXCEPT !.deposits = MapInsert(self.deposits, txid,
                                             <<amount, FALSE>>),
                      !.available = self.available + amount]

\* Account::withdraw of lib.rs
lib_withdraw(self, amount) ==
    IF self.locked
    THEN self
    ELSE IF is_sign_negative(amount)
    THEN self
    ELSE LET new_balance == self.available - amount
         IN  IF is_sign_negative(new_balance)
             THEN self
             ELSE [self EXCEPT !.available = new_balance]

\* Account::dispute of lib.rs
lib_dispute(self, txid) ==
    IF txid \in DOMAIN self.deposits
    THEN LET amount   == self.deposits[txid][1]
             disputed == self.deposits[txid][2]
         IN  IF ~disputed
             THEN [self EXCEPT !.deposits[txid] = <<amount, TRUE>>,
                               !.available = self.available - amount,
                               !.held = self.held + amount]
             ELSE self
    ELSE self

\* Account::resolve of lib.rs
lib_resolve(self, txid) ==
    IF txid \in DOMAIN self.deposits
    THEN LET amount   == self.deposits[txid][1]
             disputed == self.deposits[txid][2]
         IN  IF disputed
             THEN [self EXCEPT !.deposits[txid] = <<amount, FALSE>>,
                               !.available = self.available + amount,
                               !.held = self.held - amount]
             ELSE self
    ELSE self

\* Account::chargeback of lib.rs
lib_chargeback(self, txid) ==
    IF txid \in DOMAIN self.deposits
    THEN LET amount   == self.deposits[txid][1]
             disputed == self.deposits[txid][2]
         IN  IF disputed
             THEN [self EXCEPT !.deposits[txid] = <<amount, FALSE>>,
                               !.held = self.held - amount,
                               !.locked = TRUE]
             ELSE self
    ELSE self

\* Account::snapshot of lib.rs
lib_snapshot(self) ==
    [id |-> self.id, available |-> self.available, held |-> self.held,
     total |-> self.available + self.held, locked |-> self.locked]

\* Transaction of lib.rs (a Withdrawal carries no txid: 0)
LibTx(kind, txid, amount) == [kind |-> kind, txid |-> txid, amount |-> amount]

NoLibTx == LibTx("None", 0, 0)

\* what the task spawned by AccountHandler::new does with one transaction it
\* received, the account locked
apply(self, transaction) ==
    CASE transaction.kind = "Deposit" ->
             lib_deposit(self, transaction.txid, transaction.amount)
      [] transaction.kind = "Withdrawal" ->
             lib_withdraw(self, transaction.amount)
      [] transaction.kind = "Dispute" -> lib_dispute(self, transaction.txid)
      [] transaction.kind = "Resolve" -> lib_resolve(self, transaction.txid)
      [] transaction.kind = "Chargeback" ->
             lib_chargeback(self, transaction.txid)

\* the sender: unbounded_channel gives one, which tx holds
Sender == TRUE

\* AccountHandler::end_processing: tx.take() leaves None
end_processing(tx) == FALSE

\* AccountHandler::process that sends without looking at tx
handler_process_unchecked(tx, rx, closed, transaction) ==
    IF closed
    THEN [ret |-> "Some(Err)", rx |-> rx]
    ELSE [ret |-> "Some(Ok)", rx |-> Append(rx, transaction)]

\* AccountHandler::process on the sender tx (present or not) and the
\* transactions rx in the channel: what it returns and the channel after it.
\* send fails once the receiver is gone (closed).
handler_process(tx, rx, closed, transaction) ==
    IF tx
    THEN IF closed
         THEN [ret |-> "Some(Err)", rx |-> rx]
         ELSE [ret |-> "Some(Ok)", rx |-> Append(rx, transaction)]
    ELSE [ret |-> "None", rx |-> rx]

\* rx.recv() that gives the transaction sent last
recv_newest(rx) ==
    [transaction |-> rx[Len(rx)], rx |-> SubSeq(rx, 1, Len(rx) - 1)]

\* rx.recv() on a channel that is not empty: the transaction received and
\* the channel after it
recv(rx) == [transaction |-> Head(rx), rx |-> Tail(rx)]

\* ------------------------------------------------------------------- state

VARIABLES
    account,    \* SpecAccount: the Account under test
    pre,        \* SpecAccount: the Account before the last process call
    last,       \* SpecAccount: the transaction of the last process call
    net,        \* SpecAccount: accepted deposits - effective withdrawals
                \*   - amounts charged back, summed over all calls so far
    overwritten,\* SpecAccount: the amounts of the disputed records that a
                \*   deposit of the same txid replaced, summed over all calls
    handler,    \* SpecHandler: the AccountsHandler
    hpre,       \* SpecHandler: the handler before the last submit_transaction
    submitted,  \* SpecHandler: the transaction of the last submit_transaction
    result,     \* SpecHandler: what the last submit_transaction returned
    tally,      \* SpecHandler: per txid, how often it was submitted before
                \*   (saturating at 1), returned Ok and reached process
    snaps,      \* SpecHandler: what snapshot_accounts returned, when it was
                \*   the last call
    admitted,   \* SpecHandler: the clients of the events submitted with a
                \*   txid that was not submitted before
    stream,     \* SpecStream: per client, the balance that replaying its
                \*   events so far gives
    lockstep,   \* SpecLockstep: the Account of lib.rs and the Account of
                \*   account.rs, after the same operations
    shared,     \* SpecChannel: the Account behind the Arc<Mutex<..>>
    sender,     \* SpecChannel: AccountHandler::tx is Some
    channel,    \* SpecChannel: the transactions sent and not yet received
    task,       \* SpecChannel: where the spawned task is, and the
                \*   transaction it received and has not applied yet
    expected,   \* SpecChannel: the Account with every transaction applied
                \*   that process accepted
    returned,   \* SpecChannel: what process returned and whether it sent,
                \*   when it was the last call
    snap        \* SpecChannel: what the last call of snapshot returned, and
                \*   the snapshot of expected at that moment

accountVars == <<account, pre, last, net, overwritten>>

handlerVars == <<handler, hpre, submitted, result, tally, snaps, admitted>>

channelVars == <<shared, sender, channel, task, expected, returned, snap>>

libVars == <<lockstep, channelVars>>

vars == <<account, pre, last, net, overwritten,
          handler, hpre, submitted, result, tally, snaps, admitted,
          stream,
          lockstep, shared, sender, channel, task, expected, returned, snap>>

\* the client of the Account under test, and the clients its events name
TestClient == CHOOSE c \in ClientIds : TRUE

AccountClients ==
    {TestClient} \cup
    (IF ClientIds = {TestClient} THEN {}
     ELSE {CHOOSE c \in ClientIds : c # TestClient})

\* the task waits in rx.recv()
TaskRecv == [pc |-> "recv", transaction |-> NoLibTx]

\* no snapshot was taken
NoSnap ==
    [taken |-> FALSE, value |-> lib_snapshot(lib_new(TestClient)),
     reflects |-> lib_snapshot(lib_new(TestClient))]

\* process was not the last call
NoReturn == [ret |-> "-", sent |-> FALSE]

NoResult == [ret |-> "None", applied |-> FALSE, fresh |-> FALSE]

\* no snapshot taken: one snapshot of no client (client ids start at 1)
NoSnaps ==
    {[id |-> 0, available |-> 0, held |-> 0, total |-> 0, locked |-> FALSE]}

\* What the transaction adds to the money of account a, by kind: the amount
\* of an accepted deposit, minus the amount of a withdrawal that takes
\* effect, minus the amount of the record a chargeback takes effect on.
MoneyDelta(a, tx) ==
    IF tx.client_id # a.id THEN 0
    ELSE CASE tx.tx_type = "Deposit" ->
                IF tx.amount >= 0 THEN tx.amount ELSE 0
           [] tx.tx_type = "Withdrawal" ->
                IF ~a.locked /\ tx.amount >= 0 /\ a.available >= tx.amount
                THEN 0 - tx.amount ELSE 0
           [] tx.tx_type = "Chargeback" ->
                IF tx.txid \in DOMAIN a.deposits /\ a.deposits[tx.txid].disputed
                THEN 0 - a.deposits[tx.txid].amount ELSE 0
           [] OTHER -> 0

\* The amount of the disputed record of account a that the transaction
\* replaces: that of the record of tx.txid if tx is an accepted deposit and
\* the record is disputed, 0 otherwise.
Replaced(a, tx) ==
    IF /\ tx.client_id = a.id
       /\ tx.tx_type = "Deposit" /\ tx.amount >= 0
       /\ tx.txid \in DOMAIN a.deposits
       /\ a.deposits[tx.txid].disputed
    THEN a.deposits[tx.txid].amount
    ELSE 0

\* Ids are opaque (only compared for equality), so an id that is new to the
\* account or to the handler is drawn as the smallest new one.
Fresh(ids, seen) == {i \in ids \ seen : \A j \in ids \ seen : i <= j}

Init ==
    /\ account = AccountNew(TestClient)
    /\ pre = AccountNew(TestClient)
    /\ last = NoTx
    /\ net = 0
    /\ overwritten = 0
    /\ handler = HandlerNew
    /\ hpre = HandlerNew
    /\ submitted = NoTx
    /\ result = NoResult
    /\ tally = [t \in Txids |-> [subs |-> 0, ok |-> 0, calls |-> 0]]
    /\ snaps = NoSnaps
    /\ admitted = {}
    /\ stream = [c \in ClientIds |-> [literal |-> 0, replay |-> 0]]
    /\ lockstep = [lib |-> lib_new(TestClient), ref |-> AccountNew(TestClient)]
    /\ shared = lib_new(TestClient)
    /\ sender = Sender
    /\ channel = << >>
    /\ task = TaskRecv
    /\ expected = lib_new(TestClient)
    /\ returned = NoReturn
    /\ snap = NoSnap

\* ------------------------------------------------------ SpecAccount actions

\* one call of Account::process on the Account under test (the action that
\* makes the call records the transaction in last)
Process(tx) ==
    /\ account' = process(account, tx)
    /\ pre' = account
    /\ net' = net + MoneyDelta(account, tx)
    /\ overwritten' = overwritten + Replaced(account, tx)
    /\ UNCHANGED <<handlerVars, stream, libVars>>

ProcessDeposit ==
    \E c \in AccountClients, t \in Txids, a \in Amounts :
        /\ t \in (DOMAIN account.deposits)
                 \cup Fresh(Txids, DOMAIN account.deposits)
        /\ a > 0 => account.available + account.held + a <= MaxBalance
        /\ last' = Tx("Deposit", a, c, t)
        /\ Process(Tx("Deposit", a, c, t))

ProcessWithdrawal ==
    \E c \in AccountClients, t \in Txids, a \in WithdrawalAmounts :
        /\ last' = Tx("Withdrawal", a, c, t)
        /\ Process(Tx("Withdrawal", a, c, t))

ProcessDispute ==
    \E c \in AccountClients, t \in Txids :
        /\ last' = Tx("Dispute", 0, c, t)
        /\ Process(Tx("Dispute", 0, c, t))

ProcessResolve ==
    \E c \in AccountClients, t \in Txids :
        /\ last' = Tx("Resolve", 0, c, t)
        /\ Process(Tx("Resolve", 0, c, t))

ProcessChargeback ==
    \E c \in AccountClients, t \in Txids :
        /\ last' = Tx("Chargeback", 0, c, t)
        /\ Process(Tx("Chargeback", 0, c, t))

NextAccount ==
    \/ ProcessDeposit
    \/ ProcessWithdrawal
    \/ ProcessDispute
    \/ ProcessResolve
    \/ ProcessChargeback

SpecAccount == Init /\ [][NextAccount]_vars

\* ----------------------------------------------------- SpecDistinct actions

\* a deposit whose txid has no record in the account: the deposit ids of the
\* sequence are distinct
DistinctDeposit ==
    \E c \in AccountClients, t \in Txids, a \in Amounts :
        /\ t \in Fresh(Txids, DOMAIN account.deposits)
        /\ a > 0 => account.available + account.held + a <= MaxBalance
        /\ last' = Tx("Deposit", a, c, t)
        /\ Process(Tx("Deposit", a, c, t))

NextDistinct ==
    \/ DistinctDeposit
    \/ ProcessWithdrawal
    \/ ProcessDispute
    \/ ProcessResolve
    \/ ProcessChargeback

SpecDistinct == Init /\ [][NextDistinct]_vars

\* ------------------------------------------------------ SpecHandler actions

Saturate(n) == IF n >= 1 THEN 1 ELSE n

\* one call of AccountsHandler::submit_transaction
Submit(tx) ==
    LET r == submit_transaction(handler, tx)
    IN  /\ handler' = r.handler
        /\ hpre' = handler
        /\ submitted' = tx
        /\ result' = [ret |-> r.ret, applied |-> r.applied,
                      fresh |-> tally[tx.txid].subs = 0]
        /\ tally' = [tally EXCEPT
                       ![tx.txid].subs = Saturate(@ + 1),
                       ![tx.txid].ok = IF r.ret = "Ok" THEN @ + 1 ELSE @,
                       ![tx.txid].calls = IF r.applied THEN @ + 1 ELSE @]
        /\ snaps' = NoSnaps
        /\ admitted' = IF tally[tx.txid].subs = 0
                       THEN admitted \cup {tx.client_id}
                       ELSE admitted
        /\ UNCHANGED <<accountVars, libVars>>

SubmitTransaction ==
    \E tx \in Transactions(ClientIds) :
        /\ tx.txid \in handler.txids \cup Fresh(Txids, handler.txids)
        /\ tx.client_id \in (DOMAIN handler.accounts)
                             \cup Fresh(ClientIds, DOMAIN handler.accounts)
        /\ UNCHANGED stream
        /\ Submit(tx)

\* one call of AccountsHandler::snapshot_accounts (the action that makes the
\* call says what becomes of stream)
SnapshotAccounts ==
    /\ snaps' = snapshot_accounts(handler)
    /\ UNCHANGED <<handler, hpre, submitted, result, tally, admitted>>
    /\ UNCHANGED <<accountVars, libVars>>

\* the snapshot main takes
HandlerSnapshot ==
    /\ UNCHANGED stream
    /\ SnapshotAccounts

NextHandler ==
    \/ SubmitTransaction
    \/ HandlerSnapshot

SpecHandler == Init /\ [][NextHandler]_vars

\* ------------------------------------------------------- SpecStream actions

\* the deposits and withdrawals of the given clients
StreamTransactions(clients) ==
    {tx \in Transactions(clients) : tx.tx_type \in {"Deposit", "Withdrawal"}}

\* Replaying one event on a balance, every amount taken as it comes: a
\* deposit adds its amount, a withdrawal subtracts its amount if the balance
\* is at least the amount.
LiteralReplay(available, tx) ==
    IF tx.tx_type = "Deposit"
    THEN available + tx.amount
    ELSE IF available >= tx.amount
         THEN available - tx.amount
         ELSE available

\* Replaying one event on a balance, an event with a negative amount left
\* out.
Replay(available, tx) ==
    IF tx.amount < 0 THEN available ELSE LiteralReplay(available, tx)

\* one event of a stream of deposits and withdrawals with pairwise distinct
\* txids, handed to submit_transaction
StreamSubmit ==
    \E tx \in StreamTransactions(ClientIds) :
        /\ tx.txid \in Fresh(Txids, handler.txids)
        /\ tx.client_id \in (DOMAIN handler.accounts)
                             \cup Fresh(ClientIds, DOMAIN handler.accounts)
        /\ stream' = [stream EXCEPT
                        ![tx.client_id].literal = LiteralReplay(@, tx),
                        ![tx.client_id].replay = Replay(@, tx)]
        /\ Submit(tx)

\* the snapshot taken of the stream so far
StreamSnapshot ==
    /\ UNCHANGED stream
    /\ SnapshotAccounts

NextStream ==
    \/ StreamSubmit
    \/ StreamSnapshot

SpecStream == Init /\ [][NextStream]_vars

\* ----------------------------------------------------- SpecLockstep actions

\* the balances of an Account of lib.rs are within the bound
InRange(self) ==
    /\ self.available \in (0 - MaxBalance)..MaxBalance
    /\ self.held \in (0 - MaxBalance)..MaxBalance

\* the same operation on the Account of lib.rs and on that of account.rs
Lockstep(lib, ref) ==
    /\ InRange(lib)
    /\ lockstep' = [lib |-> lib, ref |-> ref]
    /\ UNCHANGED <<accountVars, handlerVars, stream, channelVars>>

LockstepDeposit ==
    \E t \in Txids, a \in Amounts :
        /\ t \in (DOMAIN lockstep.ref.deposits)
                 \cup Fresh(Txids, DOMAIN lockstep.ref.deposits)
        /\ a > 0 => lockstep.ref.available + lockstep.ref.held + a
                        <= MaxBalance
        /\ Lockstep(lib_deposit(lockstep.lib, t, a),
                    deposit(lockstep.ref, t, a))

LockstepWithdraw ==
    \E a \in WithdrawalAmounts :
        /\ a \in WithdrawalAmounts
        /\ Lockstep(lib_withdraw(lockstep.lib, a), withdraw(lockstep.ref, a))

LockstepDispute ==
    \E t \in Txids :
        /\ t \in Txids
        /\ Lockstep(lib_dispute(lockstep.lib, t), dispute(lockstep.ref, t))

LockstepResolve ==
    \E t \in Txids :
        /\ t \in Txids
        /\ Lockstep(lib_resolve(lockstep.lib, t), resolve(lockstep.ref, t))

LockstepChargeback ==
    \E t \in Txids :
        /\ t \in Txids
        /\ Lockstep(lib_chargeback(lockstep.lib, t),
                    chargeback(lockstep.ref, t))

NextLockstep ==
    \/ LockstepDeposit
    \/ LockstepWithdraw
    \/ LockstepDispute
    \/ LockstepResolve
    \/ LockstepChargeback

SpecLockstep == Init /\ [][NextLockstep]_vars

\* ------------------------------------------------------ SpecChannel actions

\* the longest the channel gets (the channel of the code is unbounded)
MaxChannel == 2

\* the transactions sent: one deposit and what can follow it
ChannelTxid == CHOOSE t \in Txids : TRUE

ChannelTransactions ==
    {LibTx("Deposit", ChannelTxid, MaxAmount),
     LibTx("Withdrawal", 0, MaxAmount),
     LibTx("Dispute", ChannelTxid, 0),
     LibTx("Resolve", ChannelTxid, 0),
     LibTx("Chargeback", ChannelTxid, 0)}

\* AccountHandler::process
HandlerProcess ==
    \E transaction \in ChannelTransactions :
        LET r == handler_process(sender, channel, task.pc = "done",
                                 transaction)
            e == IF r.ret = "Some(Ok)"
                 THEN apply(expected, transaction)
                 ELSE expected
        IN  /\ Len(r.rx) <= MaxChannel
            /\ InRange(e)
            /\ channel' = r.rx
            /\ expected' = e
            /\ returned' = [ret |-> r.ret, sent |-> r.rx # channel]
            /\ snap' = NoSnap
            /\ UNCHANGED <<shared, sender, task>>
            /\ UNCHANGED <<accountVars, handlerVars, stream, lockstep>>

\* AccountHandler::end_processing: the sender is dropped
EndProcessing ==
    /\ sender' = end_processing(sender)
    /\ snap' = NoSnap
    /\ returned' = NoReturn
    /\ UNCHANGED <<shared, channel, task, expected>>
    /\ UNCHANGED <<accountVars, handlerVars, stream, lockstep>>

\* the task: rx.recv() gives the next transaction, or None once the channel
\* is empty and the sender dropped, which ends the task
Recv ==
    /\ task.pc = "recv"
    /\ channel # << >> \/ ~sender
    /\ IF channel # << >>
       THEN /\ task' = [pc |-> "lock", transaction |-> recv(channel).transaction]
            /\ channel' = recv(channel).rx
       ELSE /\ task' = [pc |-> "done", transaction |-> NoLibTx]
            /\ UNCHANGED channel
    /\ UNCHANGED <<shared, sender, expected, returned, snap>>
    /\ UNCHANGED <<accountVars, handlerVars, stream, lockstep>>

\* the task: the account is locked, the transaction applied, the lock
\* released
Apply ==
    /\ task.pc = "lock"
    /\ shared' = apply(shared, task.transaction)
    /\ task' = TaskRecv
    /\ UNCHANGED <<sender, channel, expected, returned, snap>>
    /\ UNCHANGED <<accountVars, handlerVars, stream, lockstep>>

\* AccountHandler::snapshot: the account is locked and read
Snapshot ==
    /\ snap' = [taken |-> TRUE, value |-> lib_snapshot(shared),
                reflects |-> lib_snapshot(expected)]
    /\ returned' = NoReturn
    /\ UNCHANGED <<shared, sender, channel, task, expected>>
    /\ UNCHANGED <<accountVars, handlerVars, stream, lockstep>>

NextChannel ==
    \/ HandlerProcess
    \/ EndProcessing
    \/ Recv
    \/ Apply
    \/ Snapshot

SpecChannel == Init /\ [][NextChannel]_vars

\* the runtime keeps running the spawned task
SpecChannelFair == SpecChannel /\ WF_vars(Recv) /\ WF_vars(Apply)

\* ------------------------------------------------------------------ claims

\* the last process call was for the Account under test
Called == last.tx_type # "None" /\ last.client_id = pre.id

\* the record the last process call names, in the account before the call
HadRecord == last.txid \in DOMAIN pre.deposits

PreRecord == pre.deposits[last.txid]

\* C1: after every process call on an Account, whatever the sequence of
\* events, ids and signed amounts, available >= 0 and held >= 0.
C1_NonNegative == account.available >= 0 /\ account.held >= 0

\* C1's case: a dispute of a deposit whose amount exceeds what is available
\* (the funds were withdrawn) has been processed.
C1_Witness ==
    /\ Called /\ last.tx_type = "Dispute"
    /\ HadRecord /\ ~PreRecord.disputed
    /\ pre.available < PreRecord.amount
    /\ account.available = pre.available

C3_DuplicateFrame == result.ret = "Err" => handler = hpre

\* C3's case: a duplicate was rejected whose client had no account, while
\* other accounts existed.
C3_Witness ==
    /\ result.ret = "Err"
    /\ submitted.client_id \notin DOMAIN hpre.accounts
    /\ DOMAIN hpre.accounts # {}
    /\ snaps = NoSnaps

\* C4: a Dispute, Resolve or Chargeback submitted with the txid of a deposit
\* recorded for the same client is applied to that client's account.
C4_Correlated ==
    (/\ submitted.tx_type \in {"Dispute", "Resolve", "Chargeback"}
     /\ submitted.client_id \in DOMAIN hpre.accounts
     /\ submitted.txid \in DOMAIN hpre.accounts[submitted.client_id].deposits)
    => /\ result.ret = "Ok" /\ result.applied
       /\ handler.accounts[submitted.client_id]
            = process(hpre.accounts[submitted.client_id], submitted)

\* C5: once locked, an account stays locked after every later event, and a
\* later withdrawal leaves available unchanged whatever the amount.
C5_LockPermanent ==
    (last.tx_type # "None" /\ pre.locked) =>
        /\ account.locked
        /\ last.tx_type = "Withdrawal" => account.available = pre.available

\* C5's case: a withdrawal that the balance covers was processed on a locked
\* account.
C5_Witness ==
    /\ Called /\ pre.locked /\ last.tx_type = "Withdrawal"
    /\ last.amount > 0 /\ last.amount <= pre.available

ThenResolved == process(account, Tx("Resolve", 0, last.client_id, last.txid))

\* C7 as stated: from every reachable state and for every txid, a dispute
\* immediately followed by a resolve of the same txid leaves available and
\* held as they were before the dispute.
C7_RoundTripAlways ==
    (Called /\ last.tx_type = "Dispute") =>
        /\ ThenResolved.available = pre.available
        /\ ThenResolved.held = pre.held

\* C7 amended: the same, for a txid whose record is not already disputed
\* before the dispute.
C7_RoundTrip ==
    (Called /\ last.tx_type = "Dispute" /\ ~(HadRecord /\ PreRecord.disputed))
    => /\ ThenResolved.available = pre.available
       /\ ThenResolved.held = pre.held

\* C7's case: a dispute has just moved a positive amount from available to
\* held, and the resolve that follows moves it back.
C7_Witness ==
    /\ Called /\ last.tx_type = "Dispute"
    /\ HadRecord /\ ~PreRecord.disputed /\ PreRecord.amount > 0
    /\ account.held = pre.held + PreRecord.amount
    /\ ThenResolved.held = pre.held

\* C8: a dispute of a txid that has no deposit record, or whose record is
\* already disputed, changes nothing of the account.
C8_DisputeNoop ==
    (last.tx_type = "Dispute" /\ (~HadRecord \/ PreRecord.disputed))
    => account = pre

\* C8's case: a second dispute of a disputed positive deposit was processed
\* while available still covered the amount.
C8_Witness ==
    /\ Called /\ last.tx_type = "Dispute"
    /\ HadRecord /\ PreRecord.disputed
    /\ PreRecord.amount > 0 /\ pre.available >= PreRecord.amount

\* C9: available + held equals the accepted deposits minus the withdrawals
\* that took effect minus the amounts charged back; dispute and resolve leave
\* available + held unchanged.
C9_Conservation ==
    /\ account.available + account.held = net
    /\ last.tx_type \in {"Dispute", "Resolve"} =>
          account.available + account.held = pre.available + pre.held

\* C9's case: a chargeback has removed a positive amount from an account
\* that keeps other funds.
C9_Witness ==
    /\ Called /\ last.tx_type = "Chargeback"
    /\ HadRecord /\ PreRecord.disputed /\ PreRecord.amount > 0
    /\ net = pre.available + pre.held - PreRecord.amount
    /\ net > 0

\* deposit(id, a), dispute(id), chargeback(id) on a fresh account
Scenario(id, a) ==
    LET c  == TestClient
        s1 == process(AccountNew(c), Tx("Deposit", a, c, id))
        s2 == process(s1, Tx("Dispute", 0, c, id))
    IN  process(s2, Tx("Chargeback", 0, c, id))

\* the scenario ends with nothing available, nothing held, and locked
ScenarioLocks ==
    \A id \in Txids, a \in Amounts :
        a >= 0 => /\ Scenario(id, a).available = 0
                  /\ Scenario(id, a).held = 0
                  /\ Scenario(id, a).locked

\* C10: a chargeback takes effect exactly when the txid has a record that is
\* disputed: the record becomes undisputed, held loses the amount, available
\* is unchanged and the account is locked; otherwise nothing changes.  On a
\* fresh account deposit, dispute, chargeback of one id leaves available = 0,
\* held = 0, locked.
C10_Chargeback ==
    /\ (Called /\ last.tx_type = "Chargeback") =>
          IF HadRecord /\ PreRecord.disputed
          THEN /\ account.deposits =
                    [pre.deposits EXCEPT ![last.txid].disputed = FALSE]
               /\ account.held = pre.held - PreRecord.amount
               /\ account.available = pre.available
               /\ account.locked
               /\ account.id = pre.id
          ELSE account = pre
    /\ ScenarioLocks

\* C10's case: the chargeback of the scenario has been processed (one
\* deposit, all of it held, nothing available, not locked before).
C10_Witness ==
    /\ Called /\ last.tx_type = "Chargeback"
    /\ HadRecord /\ PreRecord.disputed /\ PreRecord.amount > 0
    /\ DOMAIN pre.deposits = {last.txid}
    /\ pre.available = 0 /\ pre.held = PreRecord.amount /\ ~pre.locked
    /\ account.locked /\ account.held = 0

\* the account after a dispute of the txid of the last call
ThenDisputed == process(account, Tx("Dispute", 0, last.client_id, last.txid))

\* the account after a chargeback of the txid of the last call
ThenChargedBack ==
    process(account, Tx("Chargeback", 0, last.client_id, last.txid))

\* the last call was a resolve that took effect
Resolved ==
    Called /\ last.tx_type = "Resolve" /\ HadRecord /\ PreRecord.disputed

\* C14 as stated: once a deposit was disputed and then resolved, a later
\* dispute of the same id changes neither available nor held.
C14_RedisputeNoop ==
    Resolved => /\ ThenDisputed.available = account.available
                /\ ThenDisputed.held = account.held

\* C14 amended: a dispute of a resolved deposit is applied as a first dispute
\* is.  Right after the resolve it takes effect (available covers the amount
\* just released); any dispute of an undisputed record that available covers
\* moves the amount to held, whatever happened to the record before.
C14_RedisputeApplies ==
    /\ Resolved =>
          /\ ThenDisputed.available = account.available - PreRecord.amount
          /\ ThenDisputed.held = account.held + PreRecord.amount
          /\ ThenDisputed.deposits[last.txid].disputed
    /\ (/\ Called /\ last.tx_type = "Dispute"
        /\ HadRecord /\ ~PreRecord.disputed
        /\ pre.available >= PreRecord.amount)
       => /\ account.available = pre.available - PreRecord.amount
          /\ account.held = pre.held + PreRecord.amount

\* C14's case: a positive deposit was disputed and has just been resolved,
\* and the dispute that follows holds its amount again.
C14_Witness ==
    /\ Resolved /\ PreRecord.amount > 0
    /\ ThenDisputed.held = account.held + PreRecord.amount
    /\ ThenDisputed.available = pre.available

\* C17: a dispute takes effect exactly when the txid has a record that is
\* not disputed and available >= its amount: the record becomes disputed and
\* the amount moves from available to held, with available + held, locked
\* and the other records unchanged; otherwise nothing changes.
C17_Dispute ==
    (Called /\ last.tx_type = "Dispute") =>
        IF HadRecord /\ ~PreRecord.disputed
                     /\ pre.available >= PreRecord.amount
        THEN /\ account =
                  [pre EXCEPT !.deposits[last.txid].disputed = TRUE,
                              !.available = pre.available - PreRecord.amount,
                              !.held = pre.held + PreRecord.amount]
             /\ account.available + account.held = pre.available + pre.held
             /\ account.locked = pre.locked
        ELSE account = pre

\* C17's case: a dispute has held a positive amount and left a rest
\* available.
C17_Witness ==
    /\ Called /\ last.tx_type = "Dispute"
    /\ HadRecord /\ ~PreRecord.disputed /\ PreRecord.amount > 0
    /\ pre.available > PreRecord.amount
    /\ account.deposits[last.txid].disputed
    /\ account.available > 0

\* C18: a withdrawal takes effect exactly when the account is not locked,
\* the amount is not negative and available >= amount: available loses the
\* amount and nothing else changes; otherwise nothing changes at all (no
\* partial withdrawal).
C18_Withdraw ==
    (Called /\ last.tx_type = "Withdrawal") =>
        IF ~pre.locked /\ last.amount >= 0 /\ pre.available >= last.amount
        THEN account = [pre EXCEPT !.available = pre.available - last.amount]
        ELSE account = pre

\* C18's case: a withdrawal of more than the positive available balance of
\* an unlocked account was processed.
C18_Witness ==
    /\ Called /\ last.tx_type = "Withdrawal"
    /\ ~pre.locked /\ pre.available > 0 /\ last.amount > pre.available
    /\ account.available = pre.available

\* C19: a resolve takes effect exactly when the txid has a record that is
\* disputed: the record becomes undisputed and the amount moves from held to
\* available, with locked unchanged; otherwise nothing changes.
C19_Resolve ==
    (Called /\ last.tx_type = "Resolve") =>
        IF HadRecord /\ PreRecord.disputed
        THEN account =
                 [pre EXCEPT !.deposits[last.txid].disputed = FALSE,
                             !.available = pre.available + PreRecord.amount,
                             !.held = pre.held - PreRecord.amount]
        ELSE account = pre

\* C19's case: a resolve has released the positive amount of one disputed
\* record while another stayed held.
C19_Witness ==
    /\ Called /\ last.tx_type = "Resolve"
    /\ HadRecord /\ PreRecord.disputed /\ PreRecord.amount > 0
    /\ pre.held > PreRecord.amount
    /\ account.held = pre.held - PreRecord.amount
    /\ account.available = pre.available + PreRecord.amount
    /\ ~account.deposits[last.txid].disputed

\* the last call was a deposit of a negative amount
NegativeDeposit == Called /\ last.tx_type = "Deposit" /\ last.amount < 0

\* a dispute, resolve or chargeback of the txid of the last call changes
\* nothing
ThenNothing ==
    /\ ThenDisputed = account
    /\ ThenResolved = account
    /\ ThenChargedBack = account

\* C20 as stated: a deposit of a negative amount changes nothing, and a
\* dispute, resolve or chargeback of its id then changes nothing either.
C20_NegativeDepositDead ==
    NegativeDeposit => account = pre /\ ThenNothing

\* C20 amended: a deposit of a negative amount changes nothing and creates
\* no record; a dispute, resolve or chargeback of its id then changes nothing
\* unless the id already has the record of an earlier accepted deposit.
C20_NegativeDeposit ==
    NegativeDeposit =>
        /\ account = pre
        /\ ~HadRecord => last.txid \notin DOMAIN account.deposits /\ ThenNothing

\* C20's case: a negative deposit of a new id was processed on an account
\* that has funds.
C20_Witness ==
    /\ NegativeDeposit /\ ~HadRecord
    /\ pre.available > 0
    /\ account.available = pre.available

\* C11 as stated: after a stream of deposits and withdrawals with distinct
\* txids, every client's snapshot has held = 0, locked = false and
\* available = total = the replay of the client's own events, where a deposit
\* adds its amount and a withdrawal subtracts its amount if available is at
\* least the amount.
C11_LiteralReplay ==
    snaps # NoSnaps =>
        \A s \in snaps :
            /\ s.held = 0 /\ ~s.locked
            /\ s.available = stream[s.id].literal
            /\ s.total = stream[s.id].literal

\* C11 amended: the same, where the replay leaves out every event with a
\* negative amount (a deposit adds its amount if the amount is not negative,
\* a withdrawal subtracts its amount if the amount is not negative and
\* available is at least the amount).
C11_Replay ==
    snaps # NoSnaps =>
        \A s \in snaps :
            /\ s.held = 0 /\ ~s.locked
            /\ s.available = stream[s.id].replay
            /\ s.total = stream[s.id].replay

\* C11's case: the snapshot after a deposit and a withdrawal of more than
\* the balance shows the deposit alone.
C11_Witness ==
    /\ snaps # NoSnaps
    /\ submitted.tx_type = "Withdrawal"
    /\ \E s \in snaps : /\ s.id = submitted.client_id
                        /\ s.available > 0
                        /\ submitted.amount > s.available
                        /\ s.available = stream[s.id].replay

\* C12: snapshot_accounts returns exactly one snapshot per client of an
\* admitted event (clients whose events were all no-ops included, with zero
\* balances and unlocked), none for a client seen only in rejected
\* duplicates; every snapshot has total = available + held; the handler is
\* as it was and gives the same snapshots again.
C12_Snapshots ==
    snaps # NoSnaps =>
        /\ {s.id : s \in snaps} = admitted
        /\ \A c \in admitted : Cardinality({s \in snaps : s.id = c}) = 1
        /\ Cardinality(DOMAIN handler.accounts) = Cardinality(snaps)
        /\ \A s \in snaps : s.total = s.available + s.held
        /\ snapshot_accounts(handler) = snaps

\* C12's case: a snapshot was taken after a duplicate was rejected whose
\* client has no admitted event, and it shows a client whose only events were
\* no-ops.
C12_Witness ==
    /\ snaps # NoSnaps
    /\ result.ret = "Err"
    /\ submitted.client_id \notin admitted
    /\ \E s \in snaps : s.available = 0 /\ s.held = 0 /\ ~s.locked

\* C13: submit_transaction returns Ok for every event whose txid was not
\* submitted before, whether or not the event changed the account; it
\* returns an error only for a txid submitted before; and whatever it
\* returned, another event can be submitted and a snapshot taken.
C13_OnlyDuplicateFails ==
    result.ret # "None" =>
        /\ result.ret \in {"Ok", "Err"}
        /\ result.fresh => result.ret = "Ok"
        /\ result.ret = "Err" => ~result.fresh
        /\ ENABLED SubmitTransaction
        /\ ENABLED HandlerSnapshot

\* C13's case: a withdrawal of more than the balance, with a new txid, was
\* submitted after a deposit, returned Ok and changed no account.
C13_Witness ==
    /\ result.ret = "Ok" /\ result.fresh
    /\ submitted.tx_type = "Withdrawal"
    /\ submitted.client_id \in DOMAIN hpre.accounts
    /\ hpre.accounts[submitted.client_id].available > 0
    /\ submitted.amount > hpre.accounts[submitted.client_id].available
    /\ handler.accounts = hpre.accounts

\* C15: after every operation applied to both, the Account of lib.rs and
\* the Account of account.rs give equal snapshots (available, held, total,
\* locked).
C15_Equivalent ==
    /\ lib_snapshot(lockstep.lib).available = snapshot(lockstep.ref).available
    /\ lib_snapshot(lockstep.lib).held = snapshot(lockstep.ref).held
    /\ lib_snapshot(lockstep.lib).total = snapshot(lockstep.ref).total
    /\ lib_snapshot(lockstep.lib).locked = snapshot(lockstep.ref).locked

\* C16: every value AccountHandler::snapshot returns is the snapshot of the
\* account with every transaction applied that process accepted before.
C16_SnapshotReflectsAccepted ==
    snap.taken => snap.value = snap.reflects

\* the sum of the amounts of the given records that are disputed
RECURSIVE SumDisputed(_, _)
SumDisputed(deposits, ids) ==
    IF ids = {}
    THEN 0
    ELSE LET t == CHOOSE i \in ids : TRUE
         IN  (IF deposits[t].disputed THEN deposits[t].amount ELSE 0)
             + SumDisputed(deposits, ids \ {t})

\* the sum of the amounts of the disputed records of the account
HeldSum(self) == SumDisputed(self.deposits, DOMAIN self.deposits)

\* C21 as stated: in every reachable state of the Account, deposits that
\* reuse the id of a record included, held is the sum of the amounts of the
\* disputed records.
C21_HeldIsDisputed == account.held = HeldSum(account)

\* C21 amended: held is the sum of the amounts of the disputed records plus
\* the amounts of the disputed records that a deposit of the same id
\* replaced; so held is the sum of the amounts of the disputed records as
\* long as no deposit replaced a disputed record.
C21_HeldIsDisputedOrReplaced ==
    /\ account.held = HeldSum(account) + overwritten
    /\ overwritten = 0 => account.held = HeldSum(account)
    /\ overwritten >= 0

\* C21's case: a deposit has reused the id of a record that was not
\* disputed while another record was disputed, and held is the amount of
\* that one.
C21_Witness ==
    /\ Called /\ last.tx_type = "Deposit" /\ last.amount > 0
    /\ HadRecord /\ ~PreRecord.disputed
    /\ overwritten = 0
    /\ account.held > 0
    /\ account.held = HeldSum(account)

\* the events of another client than the last one, with a new txid, that may
\* come next (there is always one more txid)
NextOfOthers ==
    LET t == CHOOSE i \in 1..(MaxTxid + 1) : i \in Fresh(1..(MaxTxid + 1),
                                                          handler.txids)
    IN  {[tx EXCEPT !.txid = t] :
            tx \in Transactions(ClientIds \ {submitted.client_id})}

\* the handler after the last event and then tx
InOrder(tx) == submit_transaction(handler, tx).handler

\* the handler after tx and then the last event, from the handler before
\* the last event
Swapped(tx) ==
    submit_transaction(submit_transaction(hpre, tx).handler,
                       submitted).handler

\* C22: in a stream with pairwise distinct txids, swapping two adjacent
\* events of different clients gives the same handler, hence the same
\* snapshots after any common rest of the stream; and an event changes no
\* account but that of its own client.
C22_Independent ==
    (result.ret = "Ok" /\ result.fresh) =>
        /\ \A tx \in NextOfOthers :
              /\ Swapped(tx) = InOrder(tx)
              /\ snapshot_accounts(Swapped(tx)) = snapshot_accounts(InOrder(tx))
        /\ \A c \in DOMAIN hpre.accounts :
              c # submitted.client_id => handler.accounts[c] = hpre.accounts[c]

\* C22's case: a deposit of one client was submitted after a deposit of
\* another, and a withdrawal of the other can come next: in either order the
\* two accounts end the same, one with the deposit and one emptied.
C22_Witness ==
    /\ result.ret = "Ok" /\ result.fresh
    /\ submitted.tx_type = "Deposit" /\ submitted.amount > 0
    /\ \E tx \in NextOfOthers :
          /\ tx.tx_type = "Withdrawal" /\ tx.amount > 0
          /\ tx.client_id \in DOMAIN hpre.accounts
          /\ hpre.accounts[tx.client_id].available = tx.amount
          /\ InOrder(tx).accounts[tx.client_id].available = 0
          /\ Swapped(tx).accounts[tx.client_id].available = 0
          /\ Swapped(tx).accounts[submitted.client_id].available > 0

ChargedBack ==
    Called /\ last.tx_type = "Chargeback" /\ HadRecord /\ PreRecord.disputed

\* the account has the balances and the record of last.txid of the Account
\* under test
SameFunds(self) ==
    /\ self.available = account.available
    /\ self.held = account.held
    /\ self.deposits[last.txid] = account.deposits[last.txid]

\* C24: with distinct deposit ids, after the chargeback of a deposit took
\* effect, a dispute, a resolve or a chargeback of the same id changes
\* neither available nor held nor the record.
C24_Terminal ==
    ChargedBack => /\ SameFunds(ThenDisputed)
                   /\ SameFunds(ThenResolved)
                   /\ SameFunds(ThenChargedBack)

\* the transactions applied to the account one after the other, in order
RECURSIVE ApplyAll(_, _)
ApplyAll(self, transactions) ==
    IF transactions = << >>
    THEN self
    ELSE ApplyAll(apply(self, Head(transactions)), Tail(transactions))

\* the account once the task has applied the transaction it holds and then
\* those in the channel, in the order they were sent
Drained ==
    ApplyAll(IF task.pc = "lock" THEN apply(shared, task.transaction)
                                 ELSE shared,
             channel)

\* the transactions sent so far are applied in the order they were sent, each
\* once; when the task has ended the sender is gone, nothing is left in the
\* channel and the account is the one the transactions sent give in sequence
InSendOrder ==
    /\ Drained = expected
    /\ task.pc = "done" =>
           /\ ~sender
           /\ channel = << >>
           /\ shared = expected

\* C25: the task applies the transactions one at a time in the order they
\* were sent; after end_processing the task eventually ends, and the account
\* is then the one that applying every transaction sent before it, in
\* order, gives.
C25_InOrderThenEnds ==
    /\ []InSendOrder
    /\ ~sender ~> (task.pc = "done" /\ shared = expected)

\* the task ended after a deposit and then a withdrawal of it were sent: the
\* other order would leave the deposit available
C25_Witness ==
    /\ task.pc = "done"
    /\ ChannelTxid \in DOMAIN shared.deposits
    /\ ~shared.deposits[ChannelTxid][2]
    /\ shared.available = 0 /\ shared.held = 0 /\ ~shared.locked
    /\ shared = expected

\* C26: once end_processing was called, process returns None, sends nothing
\* and leaves the account what the transactions sent before give; calling
\* end_processing again changes nothing.
C26_NoneAfterEnd ==
    /\ (~sender /\ returned # NoReturn) =>
           /\ returned.ret = "None"
           /\ ~returned.sent
    /\ ~sender =>
           \A transaction \in ChannelTransactions :
               handler_process(sender, channel, task.pc = "done",
                               transaction)
                   = [ret |-> "None", rx |-> channel]
    /\ ~sender => Drained = expected
    /\ ~sender => end_processing(sender) = sender
    /\ end_processing(end_processing(sender)) = end_processing(sender)
    /\ ~sender => ENABLED EndProcessing

\* process returned None while the task still holds a transaction and
\* another waits in the channel
C26_Witness ==
    /\ ~sender
    /\ returned.ret = "None"
    /\ task.pc = "lock"
    /\ channel # << >>

====
